---- MODULE Spec2Model ----
(***************************************************************************)
(* Model of the SWE-bench harness scripts of neocognos/cognos-lang:        *)
(*   scripts/swe-bench-full.py  (resumable driver, specification Spec)     *)
(*   scripts/swe-bench-run.py   (prediction writer, specification SpecRun) *)
(* and of two computations both scripts make before they run the agent:    *)
(*   the environment handed to the agent      (specification SpecEnv)      *)
(*   the selection of instances from the CLI  (specification SpecSelect)   *)
(*                                                                         *)
(* Texts (process output, patches) are sequences of one-character strings. *)
(* git and the agent are external processes: their results are drawn from  *)
(* small sets; what the scripts do with those results is translated from   *)
(* the source.                                                             *)
(***************************************************************************)
EXTENDS Integers, Sequences, FiniteSets, TLC

\* ---------------------------------------------------------------- bounds
\* number of instances in the (selected) dataset
NumInstances == 1
\* number of times the driver is started over the same directories
MaxRuns == 2
\* number of pieces (delimiters, text, whitespace) in the agent's stdout
MaxPieces == 3
\* number of lines of the .env file
MaxEnvLines == 2
\* start and limit are drawn from -MaxArg..MaxArg
MaxArg == 4
\* the dataset has up to MaxDataset instances
MaxDataset == 3

\* ------------------------------------------------------ program constants
\* swe-bench-full.py:97 and :105, "len(patch) > 10"
PatchThreshold == 10
\* swe-bench-full.py:124, default of --timeout
ArgTimeout == 300

\* ------------------------------------------------------------------ texts
\* the whitespace str.strip() removes, as far as the texts here contain it
Whitespace == {" ", "\n"}

RECURSIVE LStrip(_)
LStrip(s) ==
  IF s = <<>> THEN <<>>
  ELSE IF Head(s) \in Whitespace THEN LStrip(Tail(s)) ELSE s

RECURSIVE RStrip(_)
RStrip(s) ==
  IF s = <<>> THEN <<>>
  ELSE IF s[Len(s)] \in Whitespace THEN RStrip(SubSeq(s, 1, Len(s) - 1)) ELSE s

\* str.strip()
Strip(s) == RStrip(LStrip(s))

\* n characters of whitespace
Pad(n) == [k \in 1..n |-> IF k % 2 = 1 THEN "\n" ELSE " "]

\* n characters of diff text, with a blank inside when there is room for one
Body(n) == [k \in 1..n |-> IF k = 2 /\ n >= 3 THEN " " ELSE "d"]

\* ------------------------------------------------------------- the dataset
Instances == 1..NumInstances

\* load_dataset() followed by the default slice: the instance ids in order
dataset == [k \in 1..NumInstances |-> k]

\* ------------------------------------------------------------------- git
\* One tracked file.  Its content is named after the commit that holds it
\* ("base" = instance['base_commit'], "tip" = head of the default branch) or
\* is an edit made by the agent.  An edit is identified by the text that
\* git diff prints for it: nothing but whitespace, a text at the threshold
\* or one above it, each bare or with whitespace around it.
BodyLens == {0, PatchThreshold, PatchThreshold + 1}

PadLens == {0, 2}

Edits == [of : {"edit"}, len : BodyLens, pad : PadLens]
           \ {[of |-> "edit", len |-> 0, pad |-> 0]}

\* the content of the file as committed in c
TreeOf(c) == [of |-> c, len |-> 0, pad |-> 0]

\* an edit whose diff is longer than the threshold
LongEdit == [of |-> "edit", len |-> PatchThreshold + 1, pad |-> 0]

EditText(e) == Pad(e.pad) \o Body(e.len) \o Pad(e.pad)

\* a directory under REPOS_DIR
NoDir == [dir |-> "absent", hasBase |-> FALSE, head |-> "tip",
          index |-> TreeOf("tip"), tree |-> TreeOf("tip"), untracked |-> FALSE]

\* what a killed clone may leave behind: a directory that is not a repository
PartialDir == [NoDir EXCEPT !.dir = "partial"]

\* a successful clone: the default branch checked out, clean
FreshClone(hasBase) == [NoDir EXCEPT !.dir = "repo", !.hasBase = hasBase]

\* git checkout <commit>: refuses when the commit is not in the (shallow)
\* history or when local changes to the file would be overwritten
GitCheckout(w, c) ==
  IF w.dir # "repo" THEN w
  ELSE IF c = "base" /\ ~w.hasBase THEN w
  ELSE IF w.head = c THEN w
  ELSE IF w.index = TreeOf(w.head) /\ w.tree = w.index
       THEN [w EXCEPT !.head = c, !.index = TreeOf(c), !.tree = TreeOf(c)]
       ELSE w

\* git checkout -- . : the working tree is restored from the index
GitCheckoutDot(w) == IF w.dir # "repo" THEN w ELSE [w EXCEPT !.tree = w.index]

\* git clean -fd : untracked files are removed
GitClean(w) == IF w.dir # "repo" THEN w ELSE [w EXCEPT !.untracked = FALSE]

\* stdout of git diff: working tree against index
GitDiff(w) ==
  IF w.dir # "repo" \/ w.tree = w.index THEN <<>>
  ELSE IF w.tree \in Edits THEN EditText(w.tree)
  ELSE Body(PatchThreshold + 1) \o Pad(1)

\* ------------------------------------------------- the external processes
\* How the two clone attempts of setup_repo can end when the directory does
\* not exist: exit code of the shallow clone, then of the full clone; a
\* shallow clone may succeed without fetching base_commit (it is older than
\* the depth); a clone killed at its timeout may or may not leave its
\* directory behind.
CloneOutcomes ==
  {"shallow_ok", "shallow_ok_nobase", "full_ok", "both_fail",
   "shallow_timeout", "shallow_timeout_partial",
   "full_timeout", "full_timeout_partial"}

\* setup_repo: how the two git clone commands of lines 29-38 ended
\* ("none": the command was not run)
NoClone == [shallow |-> "none", full |-> "none"]

ClonesRun(o) ==
  CASE o \in {"shallow_ok", "shallow_ok_nobase"} ->
         [shallow |-> "ok", full |-> "none"]
    [] o = "full_ok" -> [shallow |-> "failed", full |-> "ok"]
    [] o = "both_fail" -> [shallow |-> "failed", full |-> "failed"]
    [] o \in {"shallow_timeout", "shallow_timeout_partial"} ->
         [shallow |-> "timeout", full |-> "none"]
    [] OTHER -> [shallow |-> "failed", full |-> "timeout"]

\* What the agent does to the workspace while it runs (it has a shell).
Keep == [of |-> "keep", len |-> 0, pad |-> 0]

AgentEffects ==
     {[switch |-> FALSE, edit |-> Keep, stage |-> FALSE, newfile |-> FALSE]}
  \cup [switch : {FALSE}, edit : Edits, stage : {FALSE}, newfile : {FALSE}]
  \cup {[switch |-> FALSE, edit |-> LongEdit, stage |-> TRUE, newfile |-> FALSE],
        [switch |-> FALSE, edit |-> Keep, stage |-> FALSE, newfile |-> TRUE],
        [switch |-> TRUE, edit |-> LongEdit, stage |-> FALSE, newfile |-> FALSE]}

ApplyAgent(w, eff) ==
  IF w.dir # "repo" THEN w
  ELSE LET w1 == IF eff.switch THEN GitCheckout(w, "tip") ELSE w
           w2 == IF eff.edit # Keep THEN [w1 EXCEPT !.tree = eff.edit] ELSE w1
           w3 == IF eff.stage THEN [w2 EXCEPT !.index = w2.tree] ELSE w2
       IN  [w3 EXCEPT !.untracked = w3.untracked \/ eff.newfile]

\* Lines the agent prints (r.stdout + r.stderr as a sequence of lines):
\* those with "Phase 1:" in them and those with "Falling back to agent"
Phase1Lines == {"Phase 1: scout"}
FallbackLines == {"Falling back to agent"}

\* How an agent that exits by itself can end: its output and exit code
AgentExits ==
  {[out |-> <<"working">>, rc |-> 0],
   [out |-> <<"Phase 1: scout", "working">>, rc |-> 0],
   [out |-> <<"Phase 1: scout", "Falling back to agent">>, rc |-> 1]}

\* output = "TIMEOUT"
TimeoutOutput == <<"TIMEOUT">>

\* ------------------------------------------------ swe-bench-full.py: state
\* a file that may exist
NoFile == [exists |-> FALSE, content |-> <<>>]
File(c) == [exists |-> TRUE, content |-> c]

\* no dict
None == [status |-> "none"]

VARIABLES
  pc,           \* position of the driver
  run,          \* how many times the driver has been started
  idx,          \* main: 1-based position of the loop in dataset
  ws,           \* REPOS_DIR/<iid>: the workspace of each instance
  logs,         \* RESULTS_DIR/logs/<iid>.log: content or NoFile
  patches,      \* RESULTS_DIR/patches/<iid>.patch: content or NoFile
  resultsFile,  \* RESULTS_DIR/results.jsonl: the lines, as records
  results,      \* main: the list results of this run
  result,       \* the dict returned by run_instance
  output,       \* run_instance: output
  exit_code,    \* run_instance: exit_code
  elapsed,      \* run_instance: elapsed, in seconds
  patch,        \* run_instance: patch
  summary,      \* main: what the summary printed
  timedOut,     \* history: the agent invocation of this attempt timed out
  finished,     \* history: instances for which run_instance has returned
  attempted,    \* history: instances this run has called run_instance for
  cloned        \* history: the clone commands the last setup_repo ran

\* ------------------------------------------------- swe-bench-run.py: state
VARIABLES
  rpc,          \* position of swe-bench-run.py
  rpos,         \* main: 1-based position of the loop in run_indices
  rws,          \* run_instance: tmpdir/repo
  rout,         \* run_instance: output (the agent's stdout)
  rstderr,      \* run_instance: stderr
  rpatch,       \* run_instance: patch
  predictions   \* output_file: the lines, as records

\* ------------------------------------- the environment of the agent: state
VARIABLES
  epc,          \* the scripts whose run_instance has built its env
  osenv,        \* os.environ of the harness
  envfile,      \* COGNOS_DIR/.env: its lines or NoFile
  envFull,      \* swe-bench-full.py run_instance: env
  envRun        \* swe-bench-run.py run_instance: env

\* ------------------------------------------- instance selection: state
VARIABLES
  spc,          \* the scripts whose main has selected its instances
  argStart,     \* --start of swe-bench-full.py, sys.argv[2] of swe-bench-run.py
  argLimit,     \* --limit of swe-bench-full.py, sys.argv[1] of swe-bench-run.py
  dsLen,        \* number of instances the dataset has
  selFull,      \* swe-bench-full.py main: dataset after line 140
  selRun        \* swe-bench-run.py main: the instances run_instance gets

fvars == <<pc, run, idx, ws, logs, patches, resultsFile, results, result,
           output, exit_code, elapsed, patch, summary, timedOut, finished,
           attempted, cloned>>

rvars == <<rpc, rpos, rws, rout, rstderr, rpatch, predictions>>

evars == <<epc, osenv, envfile, envFull, envRun>>

svars == <<spc, argStart, argLimit, dsLen, selFull, selRun>>

vars == <<fvars, rvars, evars, svars>>

locals == <<result, output, exit_code, elapsed, patch, timedOut>>

history == <<attempted, cloned>>

files == <<logs, patches, resultsFile>>

\* the instance the loop is at
iid == dataset[idx]

InitFull ==
  /\ pc = "idle"
  /\ run = 0
  /\ idx = 1
  /\ ws = [i \in Instances |-> NoDir]
  /\ logs = [i \in Instances |-> NoFile]
  /\ patches = [i \in Instances |-> NoFile]
  /\ resultsFile = <<>>
  /\ results = <<>>
  /\ result = None
  /\ output = <<>>
  /\ exit_code = 0
  /\ elapsed = 0
  /\ patch = <<>>
  /\ summary = None
  /\ timedOut = FALSE
  /\ finished = {}
  /\ attempted = {}
  /\ cloned = NoClone

InitRun ==
  /\ rpc = "idle"
  /\ rpos = 1
  /\ rws = NoDir
  /\ rout = <<>>
  /\ rstderr = <<>>
  /\ rpatch = <<>>
  /\ predictions = <<>>

\* a dict with no keys
EmptyEnv == [k \in {} |-> <<>>]

InitEnv ==
  /\ epc = {}
  /\ osenv = EmptyEnv
  /\ envfile = NoFile
  /\ envFull = EmptyEnv
  /\ envRun = EmptyEnv

InitSelect ==
  /\ spc = {}
  /\ argStart = 0
  /\ argLimit = 0
  /\ dsLen = 0
  /\ selFull = <<>>
  /\ selRun = <<>>

Init == InitFull /\ InitRun /\ InitEnv /\ InitSelect

\* --------------------------------------------- swe-bench-full.py: helpers
\* setup_repo lines 27-38: the workspace the clones leave and whether a
\* clone raised TimeoutExpired
CloneRepo(w, o) ==
  IF w.dir # "absent" THEN [w |-> w, raised |-> FALSE]
  ELSE CASE o = "shallow_ok" -> [w |-> FreshClone(TRUE), raised |-> FALSE]
         [] o = "shallow_ok_nobase" -> [w |-> FreshClone(FALSE), raised |-> FALSE]
         [] o = "full_ok" -> [w |-> FreshClone(TRUE), raised |-> FALSE]
         [] o = "both_fail" -> [w |-> NoDir, raised |-> FALSE]
         [] o \in {"shallow_timeout", "full_timeout"} ->
              [w |-> NoDir, raised |-> TRUE]
         [] OTHER -> [w |-> PartialDir, raised |-> TRUE]

\* setup_repo: the workspace it leaves and whether it raised
SetupRepo(w, o) ==
  LET after == CloneRepo(w, o)
      ran == IF w.dir # "absent" THEN NoClone ELSE ClonesRun(o)
  IN  IF after.raised THEN [w |-> after.w, raised |-> TRUE, cloned |-> ran]
      ELSE IF after.w.dir = "absent"
           \* subprocess.run(cwd=repo_path) raises FileNotFoundError
           THEN [w |-> after.w, raised |-> TRUE, cloned |-> ran]
           ELSE [w |-> GitClean(GitCheckoutDot(GitCheckout(after.w, "base"))),
                 raised |-> FALSE, cloned |-> ran]

\* the loop over output.split("\n") that sets mode
RECURSIVE ModeFrom(_, _)
ModeFrom(lines, mode) ==
  IF lines = <<>> THEN mode
  ELSE ModeFrom(Tail(lines),
                IF Head(lines) \in Phase1Lines THEN "v3-scout"
                ELSE IF Head(lines) \in FallbackLines THEN "v3-fallback"
                ELSE mode)

ExtractMode(out) == ModeFrom(out, "unknown")

\* the comparison of line 97 written with >= instead of >
PatchPresentAtLeast(p) == p # <<>> /\ Len(p) >= PatchThreshold

\* "patch and len(patch) > 10"
PatchPresent(p) == p # <<>> /\ Len(p) > PatchThreshold

StatusOf(p) == IF PatchPresent(p) THEN "PATCH" ELSE "NO_PATCH"

\* the result dict of lines 95-102
MakeResult(id, p, out, secs, rc) ==
  [id |-> id, status |-> StatusOf(p), patch_size |-> IF p # <<>> THEN Len(p) ELSE 0,
   mode |-> ExtractMode(out), time |-> secs, exit_code |-> rc]

\* the dict of line 56; str(e) is not modelled
CloneFailedResult(id) == [id |-> id, status |-> "CLONE_FAILED", error |-> "error"]

\* main lines 171-173: "Patches: p/t" when the list is not empty, and
\* "No results" when it is
SummaryLine(rs) ==
  LET total == Len(rs)
      patchCount == Cardinality({k \in 1..Len(rs) : rs[k].status = "PATCH"})
  IN  IF total # 0
      THEN [status |-> "counts", patches |-> patchCount, total |-> total]
      ELSE [status |-> "no results"]

InRun == {"loop", "setup", "invoke", "extract", "savepatch", "savelog", "record",
          "blocked"}

\* --------------------------------------------- swe-bench-full.py: actions
\* main is started: lines 119-143
StartRun ==
  /\ pc \in {"idle", "done", "crashed", "stopped"}
  /\ run < MaxRuns
  /\ run' = run + 1
  /\ idx' = 1
  /\ results' = <<>>
  /\ result' = None
  /\ output' = <<>>
  /\ exit_code' = 0
  /\ elapsed' = 0
  /\ patch' = <<>>
  /\ timedOut' = FALSE
  /\ summary' = None
  /\ attempted' = {}
  /\ cloned' = NoClone
  /\ pc' = "loop"
  /\ UNCHANGED <<ws, files, finished>>
  /\ UNCHANGED <<rvars, evars, svars>>

\* lines 150-153: the log exists, the instance is skipped
LoopSkip ==
  /\ pc = "loop"
  /\ idx <= Len(dataset)
  /\ logs[iid].exists
  /\ idx' = idx + 1
  /\ UNCHANGED <<pc, run, ws, files, results, locals, summary, finished,
                 history>>
  /\ UNCHANGED <<rvars, evars, svars>>

\* line 155 without the test of line 151: every instance is attempted
LoopEnterAlways ==
  /\ pc = "loop"
  /\ idx <= Len(dataset)
  /\ pc' = "setup"
  /\ result' = None
  /\ output' = <<>>
  /\ exit_code' = 0
  /\ elapsed' = 0
  /\ patch' = <<>>
  /\ timedOut' = FALSE
  /\ attempted' = attempted \cup {iid}
  /\ UNCHANGED <<run, idx, ws, files, results, summary, finished, cloned>>
  /\ UNCHANGED <<rvars, evars, svars>>

\* line 155: run_instance is called
LoopEnter ==
  /\ pc = "loop"
  /\ idx <= Len(dataset)
  /\ ~logs[iid].exists
  /\ pc' = "setup"
  /\ result' = None
  /\ output' = <<>>
  /\ exit_code' = 0
  /\ elapsed' = 0
  /\ patch' = <<>>
  /\ timedOut' = FALSE
  /\ attempted' = attempted \cup {iid}
  /\ UNCHANGED <<run, idx, ws, files, results, summary, finished, cloned>>
  /\ UNCHANGED <<rvars, evars, svars>>

\* run_instance lines 52-56 with setup_repo
Setup ==
  /\ pc = "setup"
  /\ \E o \in CloneOutcomes :
       LET s == SetupRepo(ws[iid], o) IN
         /\ ws' = [ws EXCEPT ![iid] = s.w]
         /\ cloned' = s.cloned
         /\ IF s.raised
            THEN /\ result' = CloneFailedResult(iid)
                 /\ finished' = finished \cup {iid}
                 /\ pc' = "record"
            ELSE /\ UNCHANGED <<result, finished>>
                 /\ pc' = "invoke"
  /\ UNCHANGED <<run, idx, files, results, output, exit_code, elapsed, patch,
                 summary, timedOut, attempted>>
  /\ UNCHANGED <<rvars, evars, svars>>

\* setup_repo line 41: git checkout is run without a timeout and never
\* exits; subprocess.run waits for it
SetupBlocked ==
  /\ pc = "setup"
  /\ \E o \in CloneOutcomes :
       LET c == CloneRepo(ws[iid], o) IN
         /\ ~c.raised
         /\ c.w.dir # "absent"
         /\ ws' = [ws EXCEPT ![iid] = c.w]
         /\ cloned' = IF ws[iid].dir # "absent" THEN NoClone ELSE ClonesRun(o)
  /\ pc' = "blocked"
  /\ UNCHANGED <<run, idx, files, results, locals, summary, finished,
                 attempted>>
  /\ UNCHANGED <<rvars, evars, svars>>

\* run_instance lines 58-81: the agent runs to its exit
InvokeExit ==
  /\ pc = "invoke"
  /\ \E eff \in AgentEffects, x \in AgentExits :
       /\ ws' = [ws EXCEPT ![iid] = ApplyAgent(ws[iid], eff)]
       /\ output' = x.out
       /\ exit_code' = x.rc
  /\ elapsed' = 1
  /\ timedOut' = FALSE
  /\ pc' = "extract"
  /\ UNCHANGED <<run, idx, files, results, result, patch, summary, finished,
                 history>>
  /\ UNCHANGED <<rvars, evars, svars>>

\* run_instance lines 58-81: the agent is killed at the timeout
InvokeTimeout ==
  /\ pc = "invoke"
  /\ \E eff \in AgentEffects :
       ws' = [ws EXCEPT ![iid] = ApplyAgent(ws[iid], eff)]
  /\ output' = TimeoutOutput
  /\ exit_code' = -1
  /\ elapsed' = ArgTimeout
  /\ timedOut' = TRUE
  /\ pc' = "extract"
  /\ UNCHANGED <<run, idx, files, results, result, patch, summary, finished,
                 history>>
  /\ UNCHANGED <<rvars, evars, svars>>

\* run_instance lines 83-102: git diff, mode, the result dict
Extract ==
  /\ pc = "extract"
  /\ patch' = Strip(GitDiff(ws[iid]))
  /\ result' = MakeResult(iid, patch', output, elapsed, exit_code)
  /\ pc' = "savepatch"
  /\ UNCHANGED <<run, idx, ws, files, results, output, exit_code, elapsed,
                 summary, timedOut, finished, history>>
  /\ UNCHANGED <<rvars, evars, svars>>

\* run_instance line 84: git diff is run without a timeout and never exits
ExtractBlocked ==
  /\ pc = "extract"
  /\ pc' = "blocked"
  /\ UNCHANGED <<run, idx, ws, files, results, locals, summary, finished,
                 history>>
  /\ UNCHANGED <<rvars, evars, svars>>

\* run_instance lines 104-109
SavePatch ==
  /\ pc = "savepatch"
  /\ patches' = IF PatchPresent(patch) THEN [patches EXCEPT ![iid] = File(patch)]
                ELSE patches
  /\ pc' = "savelog"
  /\ UNCHANGED <<run, idx, ws, logs, resultsFile, results, locals, summary,
                 finished, history>>
  /\ UNCHANGED <<rvars, evars, svars>>

\* run_instance lines 111-117
SaveLog ==
  /\ pc = "savelog"
  /\ logs' = [logs EXCEPT ![iid] = File(output)]
  /\ finished' = finished \cup {iid}
  /\ pc' = "record"
  /\ UNCHANGED <<run, idx, ws, patches, resultsFile, results, locals, summary,
                 history>>
  /\ UNCHANGED <<rvars, evars, svars>>

\* main lines 156-166: the result has the keys the print reads
Record ==
  /\ pc = "record"
  /\ {"time", "mode"} \subseteq DOMAIN result
  /\ results' = Append(results, result)
  /\ resultsFile' = Append(resultsFile, result)
  /\ idx' = idx + 1
  /\ pc' = "loop"
  /\ UNCHANGED <<run, ws, logs, patches, locals, summary, finished, history>>
  /\ UNCHANGED <<rvars, evars, svars>>

\* main lines 156-159: result['time'] raises KeyError, main dies
RecordKeyError ==
  /\ pc = "record"
  /\ ~({"time", "mode"} \subseteq DOMAIN result)
  /\ results' = Append(results, result)
  /\ pc' = "crashed"
  /\ UNCHANGED <<run, idx, ws, files, locals, summary, finished, history>>
  /\ UNCHANGED <<rvars, evars, svars>>

\* main lines 168-173 counting the lines of results.jsonl and not the list
SummaryOfFile ==
  /\ pc = "loop"
  /\ idx > Len(dataset)
  /\ summary' = SummaryLine(resultsFile)
  /\ pc' = "done"
  /\ UNCHANGED <<run, idx, ws, files, results, locals, finished, history>>
  /\ UNCHANGED <<rvars, evars, svars>>

\* main lines 168-173
Summary ==
  /\ pc = "loop"
  /\ idx > Len(dataset)
  /\ summary' = SummaryLine(results)
  /\ pc' = "done"
  /\ UNCHANGED <<run, idx, ws, files, results, locals, finished, history>>
  /\ UNCHANGED <<rvars, evars, svars>>

\* the operator interrupts the driver; nothing in main catches it, the
\* process is gone and what it held in memory with it
Interrupt ==
  /\ pc \in InRun
  /\ pc' = "stopped"
  /\ idx' = 1
  /\ results' = <<>>
  /\ result' = None
  /\ output' = <<>>
  /\ exit_code' = 0
  /\ elapsed' = 0
  /\ patch' = <<>>
  /\ timedOut' = FALSE
  /\ attempted' = {}
  /\ cloned' = NoClone
  /\ UNCHANGED <<run, ws, files, summary, finished>>
  /\ UNCHANGED <<rvars, evars, svars>>



Next ==
  \/ StartRun
  \/ LoopSkip
  \/ LoopEnter
  \/ Setup
  \/ SetupBlocked
  \/ InvokeExit
  \/ InvokeTimeout
  \/ Extract
  \/ ExtractBlocked
  \/ SavePatch
  \/ SaveLog
  \/ Record
  \/ RecordKeyError
  \/ Summary
  \/ Interrupt

Spec == Init /\ [][Next]_vars

\* ------------------------------------------- swe-bench-run.py: helpers
\* the literals "--- PATCH ---" and "--- END PATCH ---"
OpenDelim == <<"-", "-", "-", " ", "P", "A", "T", "C", "H", " ", "-", "-", "-">>

EndDelim == <<"-", "-", "-", " ", "E", "N", "D", " ",
              "P", "A", "T", "C", "H", " ", "-", "-", "-">>

\* " END PATCH ---": written right after an opening delimiter it completes a
\* closing delimiter that starts inside the opening one
OverlapTail == SubSeq(EndDelim, 4, Len(EndDelim))

\* what the agent's stdout is made of
Pieces == {OpenDelim, EndDelim, OverlapTail, <<"x">>, <<"\n">>}

RECURSIVE OutputsOf(_)
OutputsOf(n) ==
  IF n = 0 THEN {<<>>}
  ELSE LET shorter == OutputsOf(n - 1)
       IN  shorter \cup {o \o q : o \in shorter, q \in Pieces}

\* the agent's stdout: at most MaxPieces pieces
RunOutputs == OutputsOf(MaxPieces)

\* what the agent of swe-bench-run.py does to its workspace
RunEffects ==
  {[switch |-> FALSE, edit |-> Keep, stage |-> FALSE, newfile |-> FALSE],
   [switch |-> FALSE, edit |-> LongEdit, stage |-> FALSE, newfile |-> FALSE],
   [switch |-> FALSE, edit |-> LongEdit, stage |-> TRUE, newfile |-> FALSE]}

\* the positions (0-based) at which sub occurs in s
Occurrences(s, sub) ==
  {k \in 0..(Len(s) - Len(sub)) : SubSeq(s, k + 1, k + Len(sub)) = sub}

\* sub in s
Contains(s, sub) == Occurrences(s, sub) # {}

\* s.index(sub), for a sub that occurs in s
Index(s, sub) ==
  CHOOSE k \in Occurrences(s, sub) : \A j \in Occurrences(s, sub) : k <= j

\* s[a:b] for 0 <= a and 0 <= b
Slice(s, a, b) ==
  LET e == IF b < Len(s) THEN b ELSE Len(s)
  IN  IF e <= a THEN <<>> ELSE SubSeq(s, a + 1, e)

\* lines 93-98: the patch sliced out of the output
SlicedPatch(out) ==
  IF Contains(out, OpenDelim)
  THEN LET start == Index(out, OpenDelim) + Len(OpenDelim)
           end == IF Contains(out, EndDelim) THEN Index(out, EndDelim)
                  ELSE Len(out)
       IN  Strip(Slice(out, start, end))
  ELSE <<>>

\* lines 93-105 with the two sources swapped: the working-tree diff, or
\* else the sliced patch
ExtractPatchDiffFirst(out, w) ==
  LET d == Strip(GitDiff(w))
  IN  IF d = <<>> THEN SlicedPatch(out) ELSE d

\* lines 93-105: the sliced patch, or else the working-tree diff
ExtractPatch(out, w) ==
  LET sliced == SlicedPatch(out)
  IN  IF sliced = <<>> THEN Strip(GitDiff(w)) ELSE sliced

\* main line 186, with the defaults for start and the whole dataset for n
run_indices == [k \in 1..NumInstances |-> k]

\* ------------------------------------------- swe-bench-run.py: actions
\* main lines 149-187
RunStart ==
  /\ rpc = "idle"
  /\ rpc' = "loop"
  /\ UNCHANGED <<rpos, rws, rout, rstderr, rpatch, predictions>>
  /\ UNCHANGED <<fvars, evars, svars>>

\* main line 188-189: run_instance is called for the next index
RunNext ==
  /\ rpc = "loop"
  /\ rpos <= Len(run_indices)
  /\ rpc' = "clone"
  /\ rout' = <<>>
  /\ rstderr' = <<>>
  /\ rpatch' = <<>>
  /\ UNCHANGED <<rpos, rws, predictions>>
  /\ UNCHANGED <<fvars, evars, svars>>

\* run_instance lines 33-51: the clone succeeds (with or without base_commit
\* in its 100 commits), git checkout base_commit is run
RunClone ==
  /\ rpc = "clone"
  /\ \E hasBase \in BOOLEAN : rws' = GitCheckout(FreshClone(hasBase), "base")
  /\ rpc' = "invoke"
  /\ UNCHANGED <<rpos, rout, rstderr, rpatch, predictions>>
  /\ UNCHANGED <<fvars, evars, svars>>

\* run_instance lines 39-45: the clone exits with an error, the prediction
\* has an empty patch
RunCloneFailed ==
  /\ rpc = "clone"
  /\ rpatch' = <<>>
  /\ rpc' = "append"
  /\ UNCHANGED <<rpos, rws, rout, rstderr, predictions>>
  /\ UNCHANGED <<fvars, evars, svars>>

\* run_instance lines 39-42: the clone is killed at its timeout, nothing
\* catches TimeoutExpired
RunCloneTimeout ==
  /\ rpc = "clone"
  /\ rpc' = "crashed"
  /\ UNCHANGED <<rpos, rws, rout, rstderr, rpatch, predictions>>
  /\ UNCHANGED <<fvars, evars, svars>>

\* run_instance lines 53-87: the agent runs to its exit
RunInvokeExit ==
  /\ rpc = "invoke"
  /\ \E eff \in RunEffects, out \in RunOutputs :
       /\ rws' = ApplyAgent(rws, eff)
       /\ rout' = out
  /\ rstderr' = <<>>
  /\ rpc' = "extract"
  /\ UNCHANGED <<rpos, rpatch, predictions>>
  /\ UNCHANGED <<fvars, evars, svars>>

\* run_instance lines 53-91: the agent is killed at the timeout
RunInvokeTimeout ==
  /\ rpc = "invoke"
  /\ \E eff \in RunEffects : rws' = ApplyAgent(rws, eff)
  /\ rout' = <<>>
  /\ rstderr' = <<"t", "i", "m", "e", "o", "u", "t">>
  /\ rpc' = "extract"
  /\ UNCHANGED <<rpos, rpatch, predictions>>
  /\ UNCHANGED <<fvars, evars, svars>>

\* run_instance lines 93-105
RunExtract ==
  /\ rpc = "extract"
  /\ rpatch' = ExtractPatch(rout, rws)
  /\ rpc' = "append"
  /\ UNCHANGED <<rpos, rws, rout, rstderr, predictions>>
  /\ UNCHANGED <<fvars, evars, svars>>

\* run_instance lines 123-127 (the temporary directory is removed) and
\* main lines 190-196
RunAppend ==
  /\ rpc = "append"
  /\ predictions' = Append(predictions,
                           [instance_id |-> run_indices[rpos],
                            model_patch |-> rpatch])
  /\ rws' = NoDir
  /\ rpos' = rpos + 1
  /\ rpc' = "loop"
  /\ UNCHANGED <<rout, rstderr, rpatch>>
  /\ UNCHANGED <<fvars, evars, svars>>

\* main lines 198-203
RunSummary ==
  /\ rpc = "loop"
  /\ rpos > Len(run_indices)
  /\ rpc' = "done"
  /\ UNCHANGED <<rpos, rws, rout, rstderr, rpatch, predictions>>
  /\ UNCHANGED <<fvars, evars, svars>>

NextRun ==
  \/ RunStart
  \/ RunNext
  \/ RunClone
  \/ RunCloneFailed
  \/ RunCloneTimeout
  \/ RunInvokeExit
  \/ RunInvokeTimeout
  \/ RunExtract
  \/ RunAppend
  \/ RunSummary

SpecRun == Init /\ [][NextRun]_vars

\* ------------------------------------------ the environment of the agent
ApiKey == <<"A", "N", "T", "H", "R", "O", "P", "I", "C", "_",
            "A", "P", "I", "_", "K", "E", "Y">>

HomeKey == <<"H", "O", "M", "E">>

\* env[key] = val
Put(env, key, val) ==
  [k \in DOMAIN env \cup {key} |-> IF k = key THEN val ELSE env[k]]

\* env.pop(key, None)
Pop(env, key) == [k \in DOMAIN env \ {key} |-> env[k]]

\* what os.environ can be: with and without the credential
HarnessEnvs ==
  LET plain == Put(EmptyEnv, HomeKey, <<"h">>)
  IN  {plain, Put(plain, ApiKey, <<"s">>)}

\* lines a .env file is made of, as "for line in f" yields them
EnvLines ==
  LET define == ApiKey \o <<"=", "f">>
  IN  {define \o <<"\n">>,
       <<" ">> \o define \o <<" ", "\n">>,
       <<"#">> \o define \o <<"\n">>,
       ApiKey \o <<"\n">>,
       <<"\n">>,
       HomeKey \o <<"=", "x", "=", "y", "\n">>}

RECURSIVE EnvFilesOf(_)
EnvFilesOf(n) ==
  IF n = 0 THEN {<<>>}
  ELSE LET shorter == EnvFilesOf(n - 1)
       IN  shorter \cup {Append(c, l) : c \in shorter, l \in EnvLines}

EnvFiles == {NoFile} \cup {File(c) : c \in EnvFilesOf(MaxEnvLines)}

\* swe-bench-run.py lines 59-64: the loop over the lines of the file
RECURSIVE SourceLines(_, _)
SourceLines(env, lines) ==
  IF lines = <<>> THEN env
  ELSE LET line == Strip(Head(lines))
       IN  IF line # <<>> /\ Head(line) # "#" /\ Contains(line, <<"=">>)
           THEN LET at == Index(line, <<"=">>)
                IN  SourceLines(Put(env, Slice(line, 0, at),
                                    Slice(line, at + 1, Len(line))),
                                Tail(lines))
           ELSE SourceLines(env, Tail(lines))

\* swe-bench-run.py lines 55-64
ChildEnvRun(os, file) ==
  IF file.exists THEN SourceLines(os, file.content) ELSE os

\* swe-bench-full.py lines 65-66
ChildEnvFull(os) == Pop(os, ApiKey)

\* the harness is started with some environment and some .env file
InitEnvInputs ==
  /\ InitFull
  /\ InitRun
  /\ InitSelect
  /\ epc = {}
  /\ osenv \in HarnessEnvs
  /\ envfile \in EnvFiles
  /\ envFull = EmptyEnv
  /\ envRun = EmptyEnv

\* swe-bench-full.py run_instance lines 65-66
EnvFull ==
  /\ "full" \notin epc
  /\ envFull' = ChildEnvFull(osenv)
  /\ epc' = epc \cup {"full"}
  /\ UNCHANGED <<osenv, envfile, envRun>>
  /\ UNCHANGED <<fvars, rvars, svars>>

\* swe-bench-run.py run_instance lines 55-64
EnvRun ==
  /\ "run" \notin epc
  /\ envRun' = ChildEnvRun(osenv, envfile)
  /\ epc' = epc \cup {"run"}
  /\ UNCHANGED <<osenv, envfile, envFull>>
  /\ UNCHANGED <<fvars, rvars, svars>>

NextEnv ==
  \/ EnvFull
  \/ EnvRun

SpecEnv == InitEnvInputs /\ [][NextEnv]_vars

\* ---------------------------------------------------- instance selection
\* a dataset of n instances, each named by its position counted from 0
DatasetOf(n) == [k \in 1..n |-> k - 1]

\* how a Python slice bound is brought into 0..len
SliceBound(i, len) ==
  IF i < 0 THEN (IF i + len < 0 THEN 0 ELSE i + len)
  ELSE IF i > len THEN len ELSE i

\* seq[a:b] with b counted as one past the last element taken
PySliceInclusive(seq, a, b) ==
  LET lo == SliceBound(a, Len(seq))
      hi == SliceBound(b + 1, Len(seq))
  IN  IF hi <= lo THEN <<>> ELSE SubSeq(seq, lo + 1, hi)

\* seq[a:b] of a Python list
PySlice(seq, a, b) ==
  LET lo == SliceBound(a, Len(seq))
      hi == SliceBound(b, Len(seq))
  IN  IF hi <= lo THEN <<>> ELSE SubSeq(seq, lo + 1, hi)

\* list(range(a, b))
PyRange(a, b) == [k \in 1..(IF b > a THEN b - a ELSE 0) |-> a + k - 1]

\* swe-bench-full.py line 140
SelectedFull(ds, start, limit) == PySlice(ds, start, start + limit)

\* swe-bench-run.py lines 188-189: ds[i] for each i of run_indices; a
\* negative i counts from the end, an i outside -len..len-1 raises
\* IndexError and main ends
RECURSIVE Visit(_, _)
Visit(ds, indices) ==
  IF indices = <<>> THEN <<>>
  ELSE LET i == Head(indices)
       IN  IF i >= Len(ds) \/ i < 0 - Len(ds) THEN <<>>
           ELSE <<ds[(IF i < 0 THEN i + Len(ds) ELSE i) + 1]>>
                  \o Visit(ds, Tail(indices))

\* swe-bench-run.py lines 185-189 without --easy
SelectedRun(ds, start, n) ==
  LET stop == IF start + n < Len(ds) THEN start + n ELSE Len(ds)
  IN  Visit(ds, PyRange(start, stop))

\* the scripts are started with some start and limit over some dataset
InitSelectInputs ==
  /\ InitFull
  /\ InitRun
  /\ InitEnv
  /\ spc = {}
  /\ argStart \in (0 - MaxArg)..MaxArg
  /\ argLimit \in (0 - MaxArg)..MaxArg
  /\ dsLen \in 0..MaxDataset
  /\ selFull = <<>>
  /\ selRun = <<>>

\* swe-bench-full.py main line 140
SelectFull ==
  /\ "full" \notin spc
  /\ selFull' = SelectedFull(DatasetOf(dsLen), argStart, argLimit)
  /\ spc' = spc \cup {"full"}
  /\ UNCHANGED <<argStart, argLimit, dsLen, selRun>>
  /\ UNCHANGED <<fvars, rvars, evars>>

\* swe-bench-run.py main lines 185-189
SelectRun ==
  /\ "run" \notin spc
  /\ selRun' = SelectedRun(DatasetOf(dsLen), argStart, argLimit)
  /\ spc' = spc \cup {"run"}
  /\ UNCHANGED <<argStart, argLimit, dsLen, selFull>>
  /\ UNCHANGED <<fvars, rvars, evars>>

NextSelect ==
  \/ SelectFull
  \/ SelectRun

SpecSelect == InitSelectInputs /\ [][NextSelect]_vars

\* ------------------------------------------------------------ properties
Range(f) == {f[k] : k \in DOMAIN f}

\* number of characters of s that are left when the whitespace at its two
\* ends is not counted
TrimmedLen(s) ==
  LET solid == {k \in 1..Len(s) : s[k] \notin Whitespace}
  IN  IF solid = {} THEN 0
      ELSE (CHOOSE k \in solid : \A j \in solid : j <= k)
           - (CHOOSE k \in solid : \A j \in solid : j >= k) + 1

SixFields == {"id", "status", "patch_size", "mode", "time", "exit_code"}

Statuses == {"PATCH", "NO_PATCH", "CLONE_FAILED", "TIMEOUT"}

WellFormed(r) == DOMAIN r = SixFields /\ r.status \in Statuses

\* the workspace is checked out at the base revision, the tracked file as
\* committed there, nothing staged, nothing untracked
AtBase(w) ==
  /\ w.dir = "repo"
  /\ w.head = "base"
  /\ w.index = TreeOf("base")
  /\ w.tree = TreeOf("base")
  /\ ~w.untracked

\* C1: an instance that an earlier attempt has already been through
\* (run_instance returned for it, whatever the outcome) is never provisioned
\* nor handed to the agent again by a later run over the same directories.
C1_NoSecondAttempt ==
  pc \in {"setup", "invoke"} => iid \notin finished

\* C2: no outcome of an instance halts the run: once run_instance has
\* returned, the driver records the result and moves on to the next
\* instance (only the operator's interrupt stops it).
C2_DriverGoesOn ==
  [][(pc = "record" /\ pc' # "stopped") => (pc' = "loop" /\ idx' = idx + 1)]_vars

\* C3: when the agent invocation timed out, the result of the attempt has
\* status TIMEOUT and exit code -1.
C3_TimeoutStatus ==
  (pc \in {"savepatch", "savelog", "record"} /\ timedOut)
    => (result.status = "TIMEOUT" /\ result.exit_code = -1)

\* C4: a result has status PATCH exactly when the text printed by git diff,
\* without the whitespace at its ends, is longer than 10 characters; its
\* patch_size is that length; and so every line of results.jsonl with
\* status PATCH has patch_size > 10 and every other one patch_size <= 10.
C4_PatchIffAboveThreshold ==
  /\ pc \in {"savepatch", "savelog", "record"} /\ "patch_size" \in DOMAIN result
       => /\ result.status = "PATCH"
               <=> TrimmedLen(GitDiff(ws[iid])) > PatchThreshold
          /\ result.status \in {"PATCH", "NO_PATCH"}
          /\ result.patch_size = TrimmedLen(GitDiff(ws[iid]))
  /\ \A k \in 1..Len(resultsFile) :
       /\ resultsFile[k].status = "PATCH"
            <=> resultsFile[k].patch_size > PatchThreshold
       /\ resultsFile[k].status \in {"PATCH", "NO_PATCH"}

\* C4, the case at the threshold: git diff printed more than 10 characters,
\* exactly 10 of them are left after trimming, and the result is NO_PATCH
C4_Witness ==
  /\ pc = "record"
  /\ "patch_size" \in DOMAIN result
  /\ Len(GitDiff(ws[iid])) > PatchThreshold
  /\ TrimmedLen(GitDiff(ws[iid])) = PatchThreshold
  /\ result.status = "NO_PATCH"
  /\ result.patch_size = PatchThreshold

\* C5: when setup_repo has returned and the agent is about to be invoked,
\* the workspace (a clone that holds the base revision) is checked out at
\* the base revision with a clean tree, whatever an earlier attempt left.
C5_CleanBeforeInvoke ==
  (pc = "invoke" /\ ws[iid].dir = "repo" /\ ws[iid].hasBase)
    => AtBase(ws[iid])

\* C6: every result of this run (the list results) is in results.jsonl: a
\* run that dies after an instance has completed has that instance's
\* record on disk.
C6_ResultsOnDisk ==
  \A k \in 1..Len(results) : results[k] \in Range(resultsFile)

\* C7: the result of every attempt carries the six fields and a status of
\* the taxonomy, and is appended to results.jsonl as one line.
C7_SixFieldsWritten ==
  [][(pc = "record" /\ pc' # "stopped")
      => (WellFormed(result) /\ resultsFile' = Append(resultsFile, result))]_vars

\* C8: every instance attempt that has ended has its logs/<id>.log.
C8_LogForEveryAttempt ==
  \A i \in finished : logs[i].exists

\* C9: an attempt whose agent invocation timed out writes no patch file.
C9_NoPatchFileOnTimeout ==
  [][(pc = "savepatch" /\ timedOut) => patches' = patches]_vars

\* the content of the delimited patch block of out: the text after the first
\* opening delimiter, up to the first closing delimiter that follows it or
\* to the end of the output
BlockContent(out) ==
  LET from == Index(out, OpenDelim) + Len(OpenDelim)
      closers == {k \in Occurrences(out, EndDelim) : k >= from}
      to == IF closers = {} THEN Len(out)
            ELSE CHOOSE k \in closers : \A j \in closers : k <= j
  IN  SubSeq(out, from + 1, to)

\* a closing delimiter starts before the end of the first opening delimiter
ClosedBeforeOpened(out) ==
  /\ Contains(out, EndDelim)
  /\ Index(out, EndDelim) < Index(out, OpenDelim) + Len(OpenDelim)

\* C10 as stated: whenever the output has a delimited patch block, the
\* extracted patch is the trimmed content of the block, whatever the content
\* and whatever the working-tree diff.
C10_BlockAlwaysWins ==
  (rpc = "append" /\ Contains(rout, OpenDelim))
    => rpatch = Strip(BlockContent(rout))

\* C10 amended: the block wins when its trimmed content is not empty and no
\* closing delimiter precedes it; a block whose trimmed content is empty
\* leaves the patch to the trimmed working-tree diff.
C10_NonEmptyBlockWins ==
  (rpc = "append" /\ Contains(rout, OpenDelim))
    => LET content == Strip(BlockContent(rout))
       IN  /\ (content # <<>> /\ ~ClosedBeforeOpened(rout)) => rpatch = content
           /\ content = <<>> => rpatch = Strip(GitDiff(rws))

\* C10: a block with content between both delimiters, a working tree with a
\* different diff, and the block is what was extracted
C10_Witness ==
  /\ rpc = "append"
  /\ Contains(rout, OpenDelim)
  /\ Contains(rout, EndDelim)
  /\ ~ClosedBeforeOpened(rout)
  /\ Strip(BlockContent(rout)) # <<>>
  /\ Strip(GitDiff(rws)) # <<>>
  /\ Strip(GitDiff(rws)) # Strip(BlockContent(rout))
  /\ rpatch = Strip(BlockContent(rout))

\* ------------------------------------------------------------ C11 .. C19
RecordsOf(i) == {k \in 1..Len(resultsFile) : resultsFile[k].id = i}

\* C11: results.jsonl is only ever appended to and holds at most one record
\* per instance: no step of any run, interrupted and restarted runs
\* included, changes or removes a line that is already in the file, and
\* after every step no instance id has two records.
C11_ResultsWrittenOnce ==
  [][/\ Len(resultsFile') >= Len(resultsFile)
     /\ \A k \in 1..Len(resultsFile) : resultsFile'[k] = resultsFile[k]
     /\ \A j, k \in 1..Len(resultsFile') :
          resultsFile'[j].id = resultsFile'[k].id => j = k]_vars

\* C11: the driver has been started again over a results directory that
\* already holds the record of an instance, and has gone through the whole
\* dataset without attempting it.
C11_Witness ==
  /\ run >= 2
  /\ pc = "done"
  /\ attempted = {}
  /\ \A i \in Instances : Cardinality(RecordsOf(i)) = 1

\* the instances this run attempted whose record says PATCH
PatchedThisRun ==
  {i \in attempted : \E k \in RecordsOf(i) : resultsFile[k].status = "PATCH"}

DefinesApiKey(line) ==
  LET t == Strip(line)
  IN  /\ Len(t) > Len(ApiKey)
      /\ SubSeq(t, 1, Len(ApiKey) + 1) = ApiKey \o <<"=">>

FileDefinesApiKey ==
  /\ envfile.exists
  /\ \E k \in 1..Len(envfile.content) : DefinesApiKey(envfile.content[k])

\* C13: the environment handed to the agent holds ANTHROPIC_API_KEY only
\* when the .env file read by swe-bench-run.py defines it: never in
\* swe-bench-full.py, and in swe-bench-run.py not when the key is set in
\* the environment of the harness alone.
C13_KeyOnlyFromEnvFile ==
  /\ "full" \in epc => ApiKey \notin DOMAIN envFull
  /\ "run" \in epc => (ApiKey \in DOMAIN envRun => FileDefinesApiKey)

\* C14: when setup_repo finds no target directory it runs the shallow
\* clone first and the full clone exactly when the shallow clone did not
\* succeed, and when it returns the workspace is checked out at the
\* instance's base revision, a revision beyond the shallow depth included.
C14_FullCloneWhenShallowFails ==
  [][(pc = "setup" /\ ws[iid].dir = "absent" /\ pc' # "stopped") =>
       /\ cloned'.shallow # "none"
       /\ (cloned'.full # "none") <=> (cloned'.shallow # "ok")
       /\ pc' = "invoke" => ws'[iid].head = "base"]_vars

\* C15: the driver is never left waiting without end for a subprocess: a
\* clone, a checkout, reset or clean, an agent run or a diff that does not
\* exit by itself is ended by a timeout and the driver goes on.
C15_NeverBlocked == pc # "blocked"

\* the text that lies strictly between the first opening delimiter and the
\* first closing delimiter of out, whichever of the two comes first; all
\* the text after the opening delimiter when there is no closing one
TextBetween(out) ==
  LET o == Index(out, OpenDelim)
      afterOpen == o + Len(OpenDelim)
  IN  IF ~Contains(out, EndDelim) THEN SubSeq(out, afterOpen + 1, Len(out))
      ELSE LET c == Index(out, EndDelim)
           IN  IF c >= afterOpen THEN SubSeq(out, afterOpen + 1, c)
               ELSE IF c + Len(EndDelim) <= o
                    THEN SubSeq(out, c + Len(EndDelim) + 1, o)
                    ELSE <<>>

\* C16: when the output has an opening delimiter, the sliced patch is the
\* trimmed text strictly between the first opening and the first closing
\* delimiter, or the trimmed text after the opening delimiter when there is
\* no closing one, wherever the two delimiters are in the output.
C16_SliceBetweenDelimiters ==
  (rpc = "append" /\ Contains(rout, OpenDelim)) =>
    SlicedPatch(rout) = Strip(TextBetween(rout))

\* the dataset positions i with start <= i < start + limit that exist, in
\* ascending order
RECURSIVE PositionsFrom(_, _, _)
PositionsFrom(i, stop, len) ==
  IF i >= stop \/ i >= len THEN <<>>
  ELSE IF i < 0 THEN PositionsFrom(i + 1, stop, len)
       ELSE <<i>> \o PositionsFrom(i + 1, stop, len)

InWindow == PositionsFrom(argStart, argStart + argLimit, dsLen)

\* C17 as stated: for every integer start and limit, the instances each
\* script processes are the dataset positions i with
\* start <= i < start + limit that exist, in dataset order.
C17_WindowForEveryInteger ==
  /\ "full" \in spc => selFull = InWindow
  /\ "run" \in spc => selRun = InWindow

\* C17 amended: the same, for start >= 0 and start + limit >= 0.
C17_WindowForNonNegative ==
  (argStart >= 0 /\ argStart + argLimit >= 0) =>
    /\ "full" \in spc => selFull = InWindow
    /\ "run" \in spc => selRun = InWindow

\* C17: both scripts have selected from a window that begins inside the
\* dataset and ends beyond its last position.
C17_Witness ==
  /\ spc = {"full", "run"}
  /\ argStart > 0
  /\ argStart < dsLen
  /\ argStart + argLimit > dsLen
  /\ selFull = InWindow
  /\ selRun = InWindow
  /\ Len(selFull) = dsLen - argStart

\* C18: whenever the loop of main is at an instance it is about to skip
\* because logs/<id>.log exists, results.jsonl holds a record of that
\* instance.
C18_SkippedHasRecord ==
  (pc = "loop" /\ idx <= Len(dataset) /\ logs[iid].exists) =>
    RecordsOf(iid) # {}

\* C19: for every record of results.jsonl, patches/<id>.patch exists
\* exactly when the status of the record is PATCH, and the length of its
\* content is then the patch_size of the record.
C19_PatchFileMatchesRecord ==
  \A k \in 1..Len(resultsFile) :
    LET r == resultsFile[k]
    IN  /\ patches[r.id].exists <=> r.status = "PATCH"
        /\ patches[r.id].exists => Len(patches[r.id].content) = r.patch_size

====
